---- MODULE Spec2Model ----
(***************************************************************************)
(* PaperIQ backend (src/backend_main.py): the text-analysis pipeline       *)
(* sentence_split / tokenize_words / compute_features / score_paper /      *)
(* sentence_contributions and the /analyze request handler.                *)
(*                                                                         *)
(* A text is a sequence of one-character strings.  Python floats are       *)
(* modelled as exact rationals <<num, den>> in lowest terms (den > 0);     *)
(* the values of round(x, 2) are integers counting hundredths.             *)
(***************************************************************************)
EXTENDS Integers, Sequences, FiniteSets, TLC

\* ------------------------------------------------------------------------
\* Character classes of Python's re / str methods, over the characters the
\* model's texts use.
\* ------------------------------------------------------------------------
LowerLetters ==
  {"a","b","c","d","e","f","g","h","i","j","k","l","m",
   "n","o","p","q","r","s","t","u","v","w","x","y","z"}

UpperLetters ==
  {"A","B","C","D","E","F","G","H","I","J","K","L","M",
   "N","O","P","Q","R","S","T","U","V","W","X","Y","Z"}

Digits == {"0","1","2","3","4","5","6","7","8","9"}

\* \s and str.strip(): whitespace
Whitespace == {" ", "\n", "\t"}

\* [.!?] of the sentence boundary look-behind
SentenceEnd == {".", "!", "?"}

\* \w: letters, digits, underscore
WordChars == LowerLetters \cup UpperLetters \cup Digits \cup {"_"}

\* [\w'] of the token pattern
TokenChars == WordChars \cup {"'"}

LowerTable ==
  [c \in UpperLetters |->
     CASE c = "A" -> "a" [] c = "B" -> "b" [] c = "C" -> "c" [] c = "D" -> "d"
       [] c = "E" -> "e" [] c = "F" -> "f" [] c = "G" -> "g" [] c = "H" -> "h"
       [] c = "I" -> "i" [] c = "J" -> "j" [] c = "K" -> "k" [] c = "L" -> "l"
       [] c = "M" -> "m" [] c = "N" -> "n" [] c = "O" -> "o" [] c = "P" -> "p"
       [] c = "Q" -> "q" [] c = "R" -> "r" [] c = "S" -> "s" [] c = "T" -> "t"
       [] c = "U" -> "u" [] c = "V" -> "v" [] c = "W" -> "w" [] c = "X" -> "x"
       [] c = "Y" -> "y" [] c = "Z" -> "z"]

\* a Python list or string built element by element: the sequence as a
\* value, every element computed once
list(f) == SubSeq(f, 1, Len(f))

\* str.lower()
lower(s) ==
  list([i \in 1..Len(s) |-> IF s[i] \in UpperLetters THEN LowerTable[s[i]] ELSE s[i]])

\* least k in lo..hi with P(k), or hi + 1 when there is none
FirstIn(lo, hi, P(_)) ==
  IF \E k \in lo..hi : P(k)
  THEN CHOOSE k \in lo..hi : P(k) /\ \A j \in lo..(k - 1) : ~P(j)
  ELSE hi + 1

\* greatest k in lo..hi with P(k), or lo - 1 when there is none
LastIn(lo, hi, P(_)) ==
  IF \E k \in lo..hi : P(k)
  THEN CHOOSE k \in lo..hi : P(k) /\ \A j \in (k + 1)..hi : ~P(j)
  ELSE lo - 1

\* str.strip(): drop leading and trailing whitespace
strip(s) ==
  SubSeq(s, FirstIn(1, Len(s), LAMBDA k : s[k] \notin Whitespace),
            LastIn(1, Len(s), LAMBDA k : s[k] \notin Whitespace))

\* str.replace('\\n', ' '): every non-overlapping occurrence, left to
\* right, of the two characters backslash, n becomes one space
RECURSIVE ReplaceFrom(_, _, _)
ReplaceFrom(s, i, acc) ==
  LET k == FirstIn(i, Len(s) - 1, LAMBDA j : s[j] = "\\" /\ s[j + 1] = "n")
  IN  IF k > Len(s) - 1 THEN acc \o SubSeq(s, i, Len(s))
      ELSE ReplaceFrom(s, k + 2, acc \o SubSeq(s, i, k - 1) \o <<" ">>)

replace_backslash_n(s) == ReplaceFrom(s, 1, <<>>)

\* \b at the gap before position i (1..Len(s)+1): exactly one side is \w
IsWordAt(s, i) == i >= 1 /\ i <= Len(s) /\ s[i] \in WordChars

Boundary(s, i) == IsWordAt(s, i - 1) # IsWordAt(s, i)

\* ------------------------------------------------------------------------
\* sentence_split
\* ------------------------------------------------------------------------
\* re.split(r'(?<=[.!?])\s+', s): a separator is a maximal whitespace run
\* whose first character follows '.', '!' or '?'; i is where the current
\* candidate starts
RECURSIVE SplitFrom(_, _, _)
SplitFrom(s, i, acc) ==
  LET k == FirstIn(i, Len(s),
                   LAMBDA j : s[j] \in Whitespace /\ j > 1 /\ s[j - 1] \in SentenceEnd)
  IN  IF k > Len(s) THEN Append(acc, SubSeq(s, i, Len(s)))
      ELSE SplitFrom(s, FirstIn(k, Len(s), LAMBDA j : s[j] \notin Whitespace),
                     Append(acc, SubSeq(s, i, k - 1)))

re_split(s) == SplitFrom(s, 1, <<>>)

\* the list comprehension of line 13: keep the candidates that are not
\* empty after strip(), then replace and strip each one kept
RECURSIVE CleanCandidates(_, _, _)
CleanCandidates(cands, i, acc) ==
  IF i > Len(cands) THEN acc
  ELSE IF Len(strip(cands[i])) > 0
       THEN CleanCandidates(cands, i + 1,
                            Append(acc, strip(replace_backslash_n(cands[i]))))
       ELSE CleanCandidates(cands, i + 1, acc)

sentence_split(text) == CleanCandidates(re_split(strip(text)), 1, <<>>)

\* ------------------------------------------------------------------------
\* tokenize_words
\* ------------------------------------------------------------------------
\* re.findall(r"\b[\w']+\b", s), scanning from i: the next position where
\* \b holds before a [\w'] character starts an attempt; the greedy run of
\* [\w'] characters is cut back to the last position followed by \b; a
\* match resumes the scan after its last character, a failed attempt one
\* character further
RECURSIVE FindTokens(_, _, _)
FindTokens(s, i, acc) ==
  LET b == FirstIn(i, Len(s), LAMBDA k : s[k] \in TokenChars /\ Boundary(s, k))
      e == FirstIn(b, Len(s), LAMBDA k : s[k] \notin TokenChars) - 1
      j == LastIn(b, e, LAMBDA k : Boundary(s, k + 1))
  IN  IF b > Len(s) THEN acc
      ELSE IF j < b THEN FindTokens(s, b + 1, acc)
      ELSE FindTokens(s, j + 1, Append(acc, SubSeq(s, b, j)))

\* tokenize_words without the .lower()
tokenize_words_cased(text) == FindTokens(text, 1, <<>>)

tokenize_words(text) == FindTokens(lower(text), 1, <<>>)

\* ------------------------------------------------------------------------
\* Exact arithmetic standing for Python's float arithmetic
\* ------------------------------------------------------------------------
Abs(a) == IF a < 0 THEN 0 - a ELSE a

RECURSIVE Gcd(_, _)
Gcd(a, b) == IF b = 0 THEN a ELSE Gcd(b, a % b)

\* the rational n/d (d > 0) in lowest terms
Rat(n, d) ==
  LET g == Gcd(Abs(n), d) IN IF g = 0 THEN <<0, 1>> ELSE <<n \div g, d \div g>>

Zero == <<0, 1>>
One == <<1, 1>>
Half == <<1, 2>>

RLe(a, b) == a[1] * b[2] <= b[1] * a[2]
RLt(a, b) == a[1] * b[2] < b[1] * a[2]
RMin(a, b) == IF RLe(a, b) THEN a ELSE b
RMax(a, b) == IF RLe(a, b) THEN b ELSE a
RAdd(a, b) ==
  LET g == Gcd(a[2], b[2])
  IN  Rat(a[1] * (b[2] \div g) + b[1] * (a[2] \div g), a[2] * (b[2] \div g))
RSub(a, b) == RAdd(a, <<0 - b[1], b[2]>>)
RMul(a, b) == LET x == Rat(a[1], b[2])
                  y == Rat(b[1], a[2])
              IN  <<x[1] * y[1], x[2] * y[2]>>

\* nearest integer to n/d (d > 0), an exact tie going to the even one
RoundHalfEven(n, d) ==
  LET q == n \div d
      r == n % d
  IN  IF 2 * r < d THEN q
      ELSE IF 2 * r > d THEN q + 1
      ELSE IF q % 2 = 0 THEN q ELSE q + 1

\* round(x, 2), as a count of hundredths
round2(x) == LET y == RMul(x, <<100, 1>>) IN RoundHalfEven(y[1], y[2])

\* round(a + b + c, 2) as a count of hundredths; the integer parts of the
\* three terms are added apart from their fractions
round2_sum3(a, b, c) ==
  LET ya == RMul(a, <<100, 1>>)
      yb == RMul(b, <<100, 1>>)
      yc == RMul(c, <<100, 1>>)
      ints == (ya[1] \div ya[2]) + (yb[1] \div yb[2]) + (yc[1] \div yc[2])
      frac == RAdd(RAdd(Rat(ya[1] % ya[2], ya[2]), Rat(yb[1] % yb[2], yb[2])),
                   Rat(yc[1] % yc[2], yc[2]))
      fq == frac[1] \div frac[2]
      base == ints + fq
      r == frac[1] % frac[2]
  IN  IF 2 * r < frac[2] THEN base
      ELSE IF 2 * r > frac[2] THEN base + 1
      ELSE IF base % 2 = 0 THEN base ELSE base + 1

\* ------------------------------------------------------------------------
\* Sequence helpers (len, sum, set of Python)
\* ------------------------------------------------------------------------
Range(s) == {s[i] : i \in 1..Len(s)}

RECURSIVE SumSeq(_, _)
SumSeq(s, i) == IF i > Len(s) THEN 0 ELSE s[i] + SumSeq(s, i + 1)

\* ------------------------------------------------------------------------
\* Feature functions
\* ------------------------------------------------------------------------
type_token_ratio(words) ==
  IF Len(words) = 0 THEN Zero
  ELSE Rat(Cardinality(Range(words)), Len(words))

avg_word_length(words) ==
  IF Len(words) = 0 THEN Zero
  ELSE Rat(SumSeq(list([i \in 1..Len(words) |-> Len(words[i])]), 1), Len(words))

\* per-sentence token counts (lines 33 and 45)
SentenceLengths(sentences) ==
  list([i \in 1..Len(sentences) |-> Len(tokenize_words(sentences[i]))])

avg_sentence_length(sentences) ==
  IF Len(sentences) = 0 THEN Zero
  ELSE Rat(SumSeq(SentenceLengths(sentences), 1), Len(sentences))

\* a word is long when it has more than LongWordLen characters
LongWordLen == 6

\* the comparison of line 39 turned round: len(w) < 6
lexical_sophistication_short(words) ==
  IF Len(words) = 0 THEN Zero
  ELSE Rat(Cardinality({i \in 1..Len(words) : Len(words[i]) < LongWordLen}),
           Len(words))

lexical_sophistication(words) ==
  IF Len(words) = 0 THEN Zero
  ELSE Rat(Cardinality({i \in 1..Len(words) : Len(words[i]) > LongWordLen}),
           Len(words))

\* with n sentences of lengths l, S = sum l, Q = sum l^2:
\*   mean = S/n, var = (n*Q - S^2)/n^2, (mean+1)^2 = (S+n)^2/n^2
\* so var/(mean+1)^2 = (n*Q - S^2)/(S+n)^2
\* coherence_score with max(0.0, ...) left off
coherence_score_unclamped(sentences) ==
  IF Len(sentences) = 0 THEN Zero
  ELSE LET lens == SentenceLengths(sentences)
           n == Len(lens)
           S == SumSeq(lens, 1)
           Q == SumSeq(list([i \in 1..n |-> lens[i] * lens[i]]), 1)
       IN  RSub(One, Rat(n * Q - S * S, (S + n) * (S + n)))

coherence_score(sentences) ==
  IF Len(sentences) = 0 THEN Zero
  ELSE LET lens == SentenceLengths(sentences)
           n == Len(lens)
           S == SumSeq(lens, 1)
           Q == SumSeq(list([i \in 1..n |-> lens[i] * lens[i]]), 1)
       IN  RMax(Zero, RSub(One, Rat(n * Q - S * S, (S + n) * (S + n))))

CausalMarkers ==
  { <<"b","e","c","a","u","s","e">>,
    <<"t","h","e","r","e","f","o","r","e">>,
    <<"t","h","u","s">>,
    <<"h","e","n","c","e">>,
    <<"c","o","n","s","e","q","u","e","n","t","l","y">>,
    <<"s","o">> }

ModalHedges ==
  { <<"m","a","y">>, <<"m","i","g","h","t">>, <<"c","o","u","l","d">>,
    <<"s","h","o","u","l","d">>, <<"w","o","u","l","d">> }

\* has_causal searching s instead of s.lower()
has_causal_cased(s) ==
  \E i \in 1..Len(s) :
    /\ Boundary(s, i)
    /\ \E m \in CausalMarkers :
         /\ i + Len(m) - 1 <= Len(s)
         /\ SubSeq(s, i, i + Len(m) - 1) = m
         /\ Boundary(s, i + Len(m))

\* re.search(r'\b(because|therefore|thus|hence|consequently|so)\b', s.lower())
has_causal(s) ==
  LET t == lower(s)
  IN  \E i \in 1..Len(t) :
        /\ t[i] \in {"b", "t", "h", "c", "s"}
        /\ Boundary(t, i)
        /\ \E m \in CausalMarkers :
             /\ i + Len(m) - 1 <= Len(t)
             /\ SubSeq(t, i, i + Len(m) - 1) = m
             /\ Boundary(t, i + Len(m))

clamp01(x) == RMax(Zero, RMin(One, x))

\* reasoning_proxy without the 0.5 it is centred at
reasoning_proxy_uncentred(sentences, words) ==
  LET causal == Cardinality({i \in 1..Len(sentences) : has_causal(sentences[i])})
      modal == Cardinality({i \in 1..Len(words) : words[i] \in ModalHedges})
      score == RSub(Rat(causal, Len(sentences) + 1), Rat(modal, Len(words) + 1))
  IN  clamp01(score)

\* reasoning_proxy with the "if not words: return 0.0" of its neighbours
reasoning_proxy_fallback(sentences, words) ==
  IF Len(words) = 0 THEN Zero
  ELSE LET causal == Cardinality({i \in 1..Len(sentences) : has_causal(sentences[i])})
           modal == Cardinality({i \in 1..Len(words) : words[i] \in ModalHedges})
           score == RSub(Rat(causal, Len(sentences) + 1), Rat(modal, Len(words) + 1))
       IN  clamp01(RAdd(Half, score))

reasoning_proxy(sentences, words) ==
  LET causal == Cardinality({i \in 1..Len(sentences) : has_causal(sentences[i])})
      modal == Cardinality({i \in 1..Len(words) : words[i] \in ModalHedges})
      score == RSub(Rat(causal, Len(sentences) + 1), Rat(modal, Len(words) + 1))
  IN  clamp01(RAdd(Half, score))

\* lines 58-68 of compute_features: the features that need no oracle
text_features(sentences, words) ==
  [ word_count |-> Len(words),
    sentence_count |-> Len(sentences),
    avg_sentence_len |-> avg_sentence_length(sentences),
    avg_word_len |-> avg_word_length(words),
    ttr |-> type_token_ratio(words),
    lex_soph |-> lexical_sophistication(words),
    coherence |-> coherence_score(sentences),
    reasoning_proxy |-> reasoning_proxy(sentences, words) ]

\* ------------------------------------------------------------------------
\* score_paper
\* ------------------------------------------------------------------------
\* a score_paper that lets the document's sentiment into the composite
score_paper_with_sentiment(features) ==
  LET lang == RMul(<<100, 1>>,
                RAdd(RAdd(RMul(<<1, 5>>, RMin(One, RMul(features.ttr, <<3, 2>>))),
                          RMul(<<3, 10>>, RMin(One, RMul(features.lex_soph, <<3, 1>>)))),
                     RMul(<<1, 2>>, RMin(One, RMul(features.avg_word_len, <<1, 5>>)))))
      coh == RMul(<<100, 1>>, features.coherence)
      reason == RMul(<<100, 1>>, features.reasoning_proxy)
  IN  [ language |-> round2(lang),
        coherence |-> round2(coh),
        reasoning |-> round2(reason),
        composite |-> round2_sum3(RMul(<<2, 5>>, lang), RMul(<<3, 10>>, coh),
                                  RMul(<<3, 10>>, reason))
                        + features.sentiment_polarity ]

\* score_paper with min(1.0, ...) left off the avg_word_len term
score_paper_unclamped(features) ==
  LET lang == RMul(<<100, 1>>,
                RAdd(RAdd(RMul(<<1, 5>>, RMin(One, RMul(features.ttr, <<3, 2>>))),
                          RMul(<<3, 10>>, RMin(One, RMul(features.lex_soph, <<3, 1>>)))),
                     RMul(<<1, 2>>, RMul(features.avg_word_len, <<1, 5>>))))
      coh == RMul(<<100, 1>>, features.coherence)
      reason == RMul(<<100, 1>>, features.reasoning_proxy)
  IN  [ language |-> round2(lang),
        coherence |-> round2(coh),
        reasoning |-> round2(reason),
        composite |-> round2_sum3(RMul(<<2, 5>>, lang), RMul(<<3, 10>>, coh),
                                  RMul(<<3, 10>>, reason)) ]

score_paper(features) ==
  LET lang == RMul(<<100, 1>>,
                RAdd(RAdd(RMul(<<1, 5>>, RMin(One, RMul(features.ttr, <<3, 2>>))),
                          RMul(<<3, 10>>, RMin(One, RMul(features.lex_soph, <<3, 1>>)))),
                     RMul(<<1, 2>>, RMin(One, RMul(features.avg_word_len, <<1, 5>>)))))
      coh == RMul(<<100, 1>>, features.coherence)
      reason == RMul(<<100, 1>>, features.reasoning_proxy)
  IN  [ language |-> round2(lang),
        coherence |-> round2(coh),
        reasoning |-> round2(reason),
        composite |-> round2_sum3(RMul(<<2, 5>>, lang), RMul(<<3, 10>>, coh),
                                  RMul(<<3, 10>>, reason)) ]

\* ------------------------------------------------------------------------
\* sentence_contributions
\* ------------------------------------------------------------------------
\* the long-sentence threshold has a floor of LongFloor words
LongFloor == 40

\* the long test with the floor alone: len(words) > 40
is_long_floor_only(words, overall_features) ==
  IF LongFloor < Len(words) THEN One ELSE Zero

\* line 107: 1.0 if len(words) > max(40, avg_sentence_len*2) else 0.0
is_long(words, overall_features) ==
  IF RLt(RMax(<<LongFloor, 1>>, RMul(overall_features.avg_sentence_len, <<2, 1>>)),
         <<Len(words), 1>>)
  THEN One ELSE Zero

\* the penalty without its (1.0 - ttr) term
penalty_no_ttr(s, overall_features) ==
  LET words == tokenize_words(s)
  IN  IF Len(words) = 0 THEN Zero
      ELSE LET long == is_long(words, overall_features)
               causal == IF has_causal(s) THEN One ELSE Zero
           IN  RAdd(RMul(long, <<6, 5>>), RMul(RSub(One, causal), Half))

\* penalty of one sentence (lines 102-113)
penalty(s, overall_features) ==
  LET words == tokenize_words(s)
  IN  IF Len(words) = 0 THEN Zero
      ELSE LET ttr == Rat(Cardinality(Range(words)), Len(words))
               long == is_long(words, overall_features)
               causal == IF has_causal(s) THEN One ELSE Zero
           IN  RAdd(RAdd(RMul(long, <<6, 5>>), RSub(One, ttr)),
                    RMul(RSub(One, causal), Half))

\* list.sort(key=..., reverse=True): stable, descending; an element goes
\* after every element already placed whose key is not smaller
\* an insertion that goes before the elements of equal key
RECURSIVE InsertDescTiesFirst(_, _, _)
InsertDescTiesFirst(sorted, c, i) ==
  IF i > Len(sorted) THEN Append(sorted, c)
  ELSE IF RLe(sorted[i][2], c[2])
       THEN SubSeq(sorted, 1, i - 1) \o <<c>> \o SubSeq(sorted, i, Len(sorted))
       ELSE InsertDescTiesFirst(sorted, c, i + 1)

RECURSIVE InsertDesc(_, _, _)
InsertDesc(sorted, c, i) ==
  IF i > Len(sorted) THEN Append(sorted, c)
  ELSE IF RLt(sorted[i][2], c[2])
       THEN SubSeq(sorted, 1, i - 1) \o <<c>> \o SubSeq(sorted, i, Len(sorted))
       ELSE InsertDesc(sorted, c, i + 1)

RECURSIVE SortDesc(_, _, _)
SortDesc(cs, i, acc) ==
  IF i > Len(cs) THEN acc ELSE SortDesc(cs, i + 1, InsertDesc(acc, cs[i], 1))

sort_desc(contributions) == SortDesc(contributions, 1, <<>>)

\* a loop that skips a sentence without words instead of appending
\* (s, 0.0) for it
sentence_contributions_skip_empty(sentences, overall_features) ==
  LET Worded(c) == Len(tokenize_words(c[1])) > 0
  IN  sort_desc(SelectSeq(list([i \in 1..Len(sentences) |->
                                  <<sentences[i], penalty(sentences[i], overall_features)>>]),
                          Worded))

sentence_contributions(sentences, overall_features) ==
  sort_desc(list([i \in 1..Len(sentences) |->
                    <<sentences[i], penalty(sentences[i], overall_features)>>]))

\* ------------------------------------------------------------------------
\* Input texts
\* ------------------------------------------------------------------------
\* the causal-marker scenario (56 characters)
TextTherefore ==
  <<"T","h","e"," ","r","e","s","u","l","t"," ","f","a","i","l","e","d",".",
    " ","T","h","e","r","e","f","o","r","e"," ","t","h","e"," ","h","y","p",
    "o","t","h","e","s","i","s"," ","i","s"," ","r","e","j","e","c","t","e",
    "d",".">>

\* the same text without the word Therefore (46 characters)
TextNoTherefore ==
  <<"T","h","e"," ","r","e","s","u","l","t"," ","f","a","i","l","e","d",".",
    " ","t","h","e"," ","h","y","p","o","t","h","e","s","i","s"," ","i","s",
    " ","r","e","j","e","c","t","e","d",".">>

\* one repeated word (23 characters)
TextRepeated ==
  <<"t","h","e"," ","t","h","e"," ","t","h","e"," ","t","h","e"," ","t","h",
    "e"," ","t","h","e">>

\* seven sentences whose penalties differ and tie (30 characters)
TextSeven ==
  <<"a","."," ","b"," ","b","."," ","s","o"," ","c","."," ","d","."," ","e",
    " ","e","."," ","f","."," ","s","o"," ","g",".">>

\* three sentences without words, then a long one (39 characters)
TextUneven ==
  <<"!"," ","!"," ","!"," ","o","n","e"," ","t","w","o"," ","t","h","r","e",
    "e"," ","f","o","u","r"," ","f","i","v","e"," ","s","i","x"," ","s","e",
    "v","e","n">>

\* the sentence-flag ranking scenario (260 characters)
TextRamble ==
  <<"T","h","i","s"," ","i","s"," ","a"," ","s","h","o","r","t"," ","c","l",
    "e","a","r"," ","s","e","n","t","e","n","c","e","."," ","T","h","i","s",
    " ","i","s"," ","a","n"," ","e","x","t","r","e","m","e","l","y"," ","l",
    "o","n","g"," ","r","a","m","b","l","i","n","g"," ","s","e","n","t","e",
    "n","c","e"," ","t","h","a","t"," ","r","e","p","e","a","t","s"," ","m",
    "a","n","y"," ","m","a","n","y"," ","m","a","n","y"," ","m","a","n","y",
    " ","m","a","n","y"," ","m","a","n","y"," ","m","a","n","y"," ","m","a",
    "n","y"," ","m","a","n","y"," ","m","a","n","y"," ","m","a","n","y"," ",
    "m","a","n","y"," ","m","a","n","y"," ","m","a","n","y"," ","m","a","n",
    "y"," ","m","a","n","y"," ","m","a","n","y"," ","m","a","n","y"," ","m",
    "a","n","y"," ","m","a","n","y"," ","m","a","n","y"," ","m","a","n","y",
    " ","m","a","n","y"," ","m","a","n","y"," ","m","a","n","y"," ","m","a",
    "n","y"," ","m","a","n","y"," ","m","a","n","y"," ","w","o","r","d","s",
    " ","w","i","t","h","o","u","t"," ","c","a","u","s","a","l"," ","s","t",
    "r","u","c","t","u","r","e",".">>

\* two short sentences, a hedge in one and a causal marker in the other
\* (24 characters)
TextPair ==
  <<"I","t"," ","m","a","y"," ","f","a","i","l","."," ","S","o"," ","i","t",
    " ","e","n","d","s",".">>

\* a line break inside the first of two sentences (26 characters)
TextTwoLines ==
  <<"I","t"," ","w","o","r","k","s","\n","w","e","l","l","."," ","S","o",
    " ","i","t"," ","e","n","d","s",".">>

\* sentences of one word, cut at a length by BoundaryTexts (23 characters)
TextShortBase ==
  <<"a","."," ","b","."," ","c","."," ","d","."," ","e","."," ","f","."," ",
    "g","."," ","h",".">>

\* n copies of piece, one after the other
RECURSIVE Repeat(_, _)
Repeat(piece, n) == IF n = 0 THEN <<>> ELSE piece \o Repeat(piece, n - 1)

\* three sentences of one word
TextShortHead == <<"b","."," ","c","."," ","d","."," ">>

\* a sentence of LongFloor - 1 to LongFloor + 2 one-letter words, alone
\* or after three short sentences
LongTexts ==
  { head \o Repeat(<<"a", " ">>, n - 1) \o <<"a", ".">> :
      n \in (LongFloor - 1)..(LongFloor + 2), head \in {<<>>, TextShortHead} }

\* words and a full stop, each word with its leading space
WordPieces ==
  { <<" ","s","o">>, <<" ","m","a","y">>, <<" ","c","a","t">>,
    <<" ","T","h","e","r","e","f","o","r","e">>, <<".">> }

\* single characters: a letter, the apostrophe, a full stop, a space, and
\* the backslash and n of the two-character escape
CharPieces == { <<"a">>, <<"'">>, <<".">>, <<" ">>, <<"\\">>, <<"n">> }

MaxPieces == 5
MaxChars == 4
MaxPad == 1
MaxFailAt == 3
NumReqs == 2

\* the texts made of at most n pieces
RECURSIVE Compose(_, _)
Compose(pieces, n) ==
  IF n = 0 THEN { <<>> }
  ELSE LET shorter == Compose(pieces, n - 1)
       IN  shorter \cup { t \o q : t \in shorter, q \in pieces }

Pad(n) == [i \in 1..n |-> " "]

\* analyze() rejects a text whose stripped length is below MinChars
MinChars == 20

\* TextShortBase cut to lengths around MinChars, with spaces around it
BoundaryTexts ==
  { Pad(a) \o SubSeq(TextShortBase, 1, n) \o Pad(b) :
      n \in (MinChars - 2)..(MinChars + 1), a \in 0..MaxPad, b \in 0..MaxPad }

ScenarioTexts ==
  { TextTherefore, TextNoTherefore, TextRepeated, TextSeven, TextUneven, TextRamble,
    TextPair, TextTwoLines }

\* texts of the direct calls of the core functions
CoreTexts ==
  Compose(WordPieces, MaxPieces) \cup Compose(CharPieces, MaxChars) \cup ScenarioTexts

\* texts of a single /analyze request
AnalyzeTexts ==
  ScenarioTexts \cup BoundaryTexts \cup Compose(CharPieces, 1) \cup LongTexts

\* texts of the concurrent requests
ConcurrentTexts == { TextPair, TextRepeated, <<"a", ".">> }

\* ------------------------------------------------------------------------
\* The sentiment oracle: TextBlob(span).sentiment
\* ------------------------------------------------------------------------
\* An oracle is a value table and the number of the call of a request on
\* which it raises (0: never).  Polarity and subjectivity are counted in
\* hundredths: polarity in -100..100, subjectivity in 0..100.
OracleKinds ==
  { [vals |-> v, fail_at |-> 0] : v \in {"A", "B"} }
    \cup { [vals |-> "A", fail_at |-> j] : j \in 1..MaxFailAt }

polarity_and_subjectivity(k, span) ==
  LET p == ((Len(span) % 9) - 4) * 25
      q == (Len(span) % 5) * 25
  IN  IF k.vals = "A" THEN [polarity |-> p, subjectivity |-> q]
      ELSE [polarity |-> 0 - p, subjectivity |-> 100 - q]

\* the oracle raises on the nth call of a request
oracle_raises(k, nth) == k.fail_at = nth

\* ------------------------------------------------------------------------
\* State: one slot per call in progress, holding the locals of
\* analyze() / compute_features() and the outcome
\* ------------------------------------------------------------------------
VARIABLES
  pc,                   \* position of the call: "idle", "doc_sentiment",
                        \* "sentence_sentiment", "done"
  entry,                \* "analyze": POST /analyze; "core": the core
                        \* functions called directly
  text,                 \* the input text
  oracle,               \* the oracle the call meets
  sentences,            \* sentence_split(text)
  words,                \* tokenize_words(text)
  features,             \* the features dict
  sentence_sentiments,  \* list built by the loop of lines 77-83
  calls,                \* the oracle calls made so far: span and result
  status,               \* "200", "400", "500"; "returned", "raised" for
                        \* a direct call; "" while running
  detail,               \* detail of an error response
  scores,               \* score_paper(features)
  contribs,             \* sentence_contributions(sentences, features)
  top_flagged,          \* top_flagged_sentences of the response
  sentiment_analysis,   \* sentiment_analysis of the response
  ui                    \* what the Streamlit page made of the response:
                        \* the expanders drawn and where rendering ended

vars == <<pc, entry, text, oracle, sentences, words, features,
          sentence_sentiments, calls, status, detail, scores, contribs,
          top_flagged, sentiment_analysis, ui>>

Slots == 1..NumReqs

\* a local that is not bound yet
Unset == [unset |-> TRUE]

\* the [:5] of line 143
TopN == 5

TooShortDetail == "Text too short. Provide at least 20 characters."
ServerErrorDetail == "Internal Server Error"

\* the page before the response is handled
NotRendered == [outcome |-> "", expanders |-> <<>>]

IdleSlot ==
  /\ pc = [r \in Slots |-> "idle"]
  /\ entry = [r \in Slots |-> ""]
  /\ text = [r \in Slots |-> <<>>]
  /\ oracle = [r \in Slots |-> [vals |-> "A", fail_at |-> 0]]
  /\ sentences = [r \in Slots |-> <<>>]
  /\ words = [r \in Slots |-> <<>>]
  /\ features = [r \in Slots |-> Unset]
  /\ sentence_sentiments = [r \in Slots |-> <<>>]
  /\ calls = [r \in Slots |-> <<>>]
  /\ status = [r \in Slots |-> ""]
  /\ detail = [r \in Slots |-> ""]
  /\ scores = [r \in Slots |-> Unset]
  /\ contribs = [r \in Slots |-> <<>>]
  /\ top_flagged = [r \in Slots |-> <<>>]
  /\ sentiment_analysis = [r \in Slots |-> <<>>]
  /\ ui = [r \in Slots |-> NotRendered]

Init == IdleSlot

\* a dict shared by every call (a module-level features = {})
bind_shared(var, r, v) == [x \in Slots |-> v]

\* features = {} (line 60) is a local of the call: the dict of slot r is
\* its own
bind(var, r, v) == [var EXCEPT ![r] = v]

\* lines 58-68: segmentation and the features that need no oracle
StartFeatures(r, t) ==
  LET ss == sentence_split(t)
      ws == tokenize_words(t)
  IN  /\ sentences' = [sentences EXCEPT ![r] = ss]
      /\ words' = [words EXCEPT ![r] = ws]
      /\ features' = bind(features, r, text_features(ss, ws))
      /\ pc' = [pc EXCEPT ![r] = "doc_sentiment"]

\* the test of line 138 on len(text) instead of len(text.strip())
too_short_unstripped(t) == Len(t) < MinChars

\* line 138: len(text.strip()) < 20
too_short(t) == Len(strip(t)) < MinChars

\* analyze(), lines 137-140, up to the first oracle call
AnalyzeBegin(r, t) ==
  /\ pc[r] = "idle"
  /\ entry' = [entry EXCEPT ![r] = "analyze"]
  /\ text' = [text EXCEPT ![r] = t]
  /\ IF too_short(t)
     THEN /\ status' = [status EXCEPT ![r] = "400"]
          /\ detail' = [detail EXCEPT ![r] = TooShortDetail]
          /\ pc' = [pc EXCEPT ![r] = "done"]
          /\ UNCHANGED <<sentences, words, features>>
     ELSE /\ StartFeatures(r, t)
          /\ UNCHANGED <<status, detail>>
  /\ UNCHANGED <<oracle, sentence_sentiments, calls, scores, contribs,
                 top_flagged, sentiment_analysis, ui>>

\* compute_features() called directly, up to the first oracle call
CoreBegin(r, t) ==
  /\ pc[r] = "idle"
  /\ entry' = [entry EXCEPT ![r] = "core"]
  /\ text' = [text EXCEPT ![r] = t]
  /\ StartFeatures(r, t)
  /\ UNCHANGED <<oracle, status, detail, sentence_sentiments, calls, scores,
                 contribs, top_flagged, sentiment_analysis, ui>>

\* the oracle raises and nothing catches it: analyze() ends in the
\* framework's answer to an unhandled exception, a direct call in the
\* exception itself
Raise(r) ==
  /\ pc' = [pc EXCEPT ![r] = "done"]
  /\ status' = [status EXCEPT ![r] = IF entry[r] = "analyze" THEN "500" ELSE "raised"]
  /\ detail' = [detail EXCEPT ![r] = IF entry[r] = "analyze" THEN ServerErrorDetail ELSE ""]

\* lines 71-73: the oracle on the whole text; k is the oracle this call
\* meets.  The two reads of blob.sentiment are one analysis: TextBlob
\* caches the property.
DocSentiment(r, k) ==
  /\ pc[r] = "doc_sentiment"
  /\ oracle' = [oracle EXCEPT ![r] = k]
  /\ IF oracle_raises(k, Len(calls[r]) + 1)
     THEN /\ calls' = [calls EXCEPT ![r] = Append(@, [span |-> text[r], raised |-> TRUE,
                                                      polarity |-> 0, subjectivity |-> 0])]
          /\ Raise(r)
          /\ UNCHANGED features
     ELSE LET res == polarity_and_subjectivity(k, text[r])
          IN  /\ calls' = [calls EXCEPT ![r] = Append(@, [span |-> text[r], raised |-> FALSE,
                                                          polarity |-> res.polarity,
                                                          subjectivity |-> res.subjectivity])]
              /\ features' = bind(features, r,
                                  features[r] @@ [sentiment_polarity |-> res.polarity,
                                                  sentiment_subjectivity |-> res.subjectivity])
              /\ pc' = [pc EXCEPT ![r] = "sentence_sentiment"]
              /\ UNCHANGED <<status, detail>>
  /\ UNCHANGED <<entry, text, sentences, words, sentence_sentiments,
                 scores, contribs, top_flagged, sentiment_analysis, ui>>

\* a loop that hands the oracle the whole text: TextBlob(text)
loop_span_text(r) == text[r]

\* line 78: the span handed to the oracle is the loop's sentence
loop_span(r) == sentences[r][Len(sentence_sentiments[r]) + 1]

\* lines 77-83: one iteration of the loop over the sentences
SentenceSentiment(r) ==
  /\ pc[r] = "sentence_sentiment"
  /\ Len(sentence_sentiments[r]) < Len(sentences[r])
  /\ LET sentence == sentences[r][Len(sentence_sentiments[r]) + 1]
         span == loop_span(r)
     IN  IF oracle_raises(oracle[r], Len(calls[r]) + 1)
         THEN /\ calls' = [calls EXCEPT ![r] = Append(@, [span |-> span, raised |-> TRUE,
                                                          polarity |-> 0, subjectivity |-> 0])]
              /\ Raise(r)
              /\ UNCHANGED sentence_sentiments
         ELSE LET res == polarity_and_subjectivity(oracle[r], span)
              IN  /\ calls' = [calls EXCEPT ![r] =
                                 Append(@, [span |-> span, raised |-> FALSE,
                                            polarity |-> res.polarity,
                                            subjectivity |-> res.subjectivity])]
                  /\ sentence_sentiments' =
                       [sentence_sentiments EXCEPT ![r] =
                          Append(@, [text |-> sentence, polarity |-> res.polarity,
                                     subjectivity |-> res.subjectivity])]
                  /\ UNCHANGED <<pc, status, detail>>
  /\ UNCHANGED <<entry, text, oracle, sentences, words, features,
                 scores, contribs, top_flagged, sentiment_analysis, ui>>

\* the loop is over: compute_features returns
LoopDone(r) ==
  /\ pc[r] = "sentence_sentiment"
  /\ Len(sentence_sentiments[r]) = Len(sentences[r])

\* the whole ranking, no [:5]
top_sentences_all(cs) == list([i \in 1..Len(cs) |-> cs[i][1]])

\* contribs[:5], sentences only (line 143)
top_sentences(cs) ==
  list([i \in 1..(IF Len(cs) < TopN THEN Len(cs) ELSE TopN) |-> cs[i][1]])

\* analyze(), lines 141-163: scores, ranking, response
AnalyzeReturn(r) ==
  /\ entry[r] = "analyze"
  /\ LoopDone(r)
  /\ LET cs == sentence_contributions(sentences[r], features[r])
     IN  /\ scores' = [scores EXCEPT ![r] = score_paper(features[r])]
         /\ contribs' = [contribs EXCEPT ![r] = cs]
         /\ top_flagged' = [top_flagged EXCEPT ![r] = top_sentences(cs)]
  /\ sentiment_analysis' =
       [sentiment_analysis EXCEPT ![r] =
          list([i \in 1..Len(sentence_sentiments[r]) |->
                 [text |-> sentence_sentiments[r][i].text,
                  polarity |-> sentence_sentiments[r][i].polarity,
                  subjectivity |-> sentence_sentiments[r][i].subjectivity]])]
  /\ status' = [status EXCEPT ![r] = "200"]
  /\ pc' = [pc EXCEPT ![r] = "done"]
  /\ UNCHANGED <<entry, text, oracle, sentences, words, features,
                 sentence_sentiments, calls, detail, ui>>

\* a direct caller goes on with score_paper and sentence_contributions
CoreReturn(r) ==
  /\ entry[r] = "core"
  /\ LoopDone(r)
  /\ scores' = [scores EXCEPT ![r] = score_paper(features[r])]
  /\ contribs' = [contribs EXCEPT ![r] =
                    sentence_contributions(sentences[r], features[r])]
  /\ status' = [status EXCEPT ![r] = "returned"]
  /\ pc' = [pc EXCEPT ![r] = "done"]
  /\ UNCHANGED <<entry, text, oracle, sentences, words, features,
                 sentence_sentiments, calls, detail, top_flagged,
                 sentiment_analysis, ui>>

\* the response is sent and the locals of the call are gone
Retire(r) ==
  /\ pc[r] = "done"
  /\ pc' = [pc EXCEPT ![r] = "idle"]
  /\ entry' = [entry EXCEPT ![r] = ""]
  /\ text' = [text EXCEPT ![r] = <<>>]
  /\ oracle' = [oracle EXCEPT ![r] = [vals |-> "A", fail_at |-> 0]]
  /\ sentences' = [sentences EXCEPT ![r] = <<>>]
  /\ words' = [words EXCEPT ![r] = <<>>]
  /\ features' = [features EXCEPT ![r] = Unset]
  /\ sentence_sentiments' = [sentence_sentiments EXCEPT ![r] = <<>>]
  /\ calls' = [calls EXCEPT ![r] = <<>>]
  /\ status' = [status EXCEPT ![r] = ""]
  /\ detail' = [detail EXCEPT ![r] = ""]
  /\ scores' = [scores EXCEPT ![r] = Unset]
  /\ contribs' = [contribs EXCEPT ![r] = <<>>]
  /\ top_flagged' = [top_flagged EXCEPT ![r] = <<>>]
  /\ sentiment_analysis' = [sentiment_analysis EXCEPT ![r] = <<>>]
  /\ ui' = [ui EXCEPT ![r] = NotRendered]

\* ------------------------------------------------------------------------
\* The Streamlit page (src/streamlit_app.py) handling the response
\* ------------------------------------------------------------------------
\* the keys of the diagnostics mapping, in the order compute_features
\* sets them, which is the order the response and .items() keep
DiagnosticsKeys ==
  << "word_count", "sentence_count", "avg_sentence_len", "avg_word_len", "ttr",
     "lex_soph", "coherence", "reasoning_proxy", "sentiment_polarity",
     "sentiment_subjectivity" >>

\* the keys of the metric_names dict of the page
metric_names ==
  { "word_count", "sentence_count", "avg_sentence_len", "avg_word_len", "ttr",
    "lex_soph", "coherence", "reasoning_proxy" }

\* the keys of the metric_explanations dict of the page
metric_explanations ==
  { "word_count", "sentence_count", "avg_sentence_len", "avg_word_len", "ttr",
    "lex_soph", "coherence", "reasoning_proxy" }

\* the keys of a diagnostics mapping, in order
diagnostics_items(diagnostics) ==
  LET Present(k) == k \in DOMAIN diagnostics IN SelectSeq(DiagnosticsKeys, Present)

\* the loop of lines 75-109: one expander per key; metric_names[k] and
\* metric_explanations[k] raise KeyError for a key they do not hold
RECURSIVE display_loop(_, _, _)
display_loop(keys, i, drawn) ==
  IF i > Len(keys) THEN [raised |-> FALSE, expanders |-> drawn]
  ELSE IF keys[i] \notin metric_names \/ keys[i] \notin metric_explanations
       THEN [raised |-> TRUE, expanders |-> drawn]
       ELSE display_loop(keys, i + 1, Append(drawn, keys[i]))

\* lines 32-265: the button handler once the backend has answered: an
\* answer other than 200 is shown as an API error; for a 200 the Scores
\* tab is drawn, then the flagged sentences and the Visualizations tab;
\* any exception on the way ends in the 'Failed to call API' branch
Render(r) ==
  /\ pc[r] = "done"
  /\ entry[r] = "analyze"
  /\ ui[r] = NotRendered
  /\ IF status[r] # "200"
     THEN ui' = [ui EXCEPT ![r] = [outcome |-> "api_error", expanders |-> <<>>]]
     ELSE LET loop == display_loop(diagnostics_items(features[r]), 1, <<>>)
          IN  ui' = [ui EXCEPT ![r] =
                       [outcome |-> IF loop.raised THEN "failed_to_call_api"
                                    ELSE "visualizations",
                        expanders |-> loop.expanders]]
  /\ UNCHANGED <<pc, entry, text, oracle, sentences, words, features,
                 sentence_sentiments, calls, status, detail, scores, contribs,
                 top_flagged, sentiment_analysis>>

\* Concurrent /analyze requests, each in its own slot
Next ==
  \E r \in Slots :
    \/ pc[r] = "idle" /\ \E t \in ConcurrentTexts : AnalyzeBegin(r, t)
    \/ \E k \in OracleKinds : DocSentiment(r, k)
    \/ SentenceSentiment(r)
    \/ AnalyzeReturn(r)
    \/ Retire(r)

Spec == Init /\ [][Next]_vars

\* One /analyze request or one direct call, in slot 1
NextOne ==
  \/ pc[1] = "idle" /\ \E t \in AnalyzeTexts : AnalyzeBegin(1, t)
  \/ pc[1] = "idle" /\ \E t \in AnalyzeTexts : CoreBegin(1, t)
  \/ \E k \in OracleKinds : DocSentiment(1, k)
  \/ SentenceSentiment(1)
  \/ AnalyzeReturn(1)
  \/ CoreReturn(1)
  \/ Render(1)

SpecOne == Init /\ [][NextOne]_vars

\* One direct call of the core functions on any text of CoreTexts
NextCore ==
  \/ pc[1] = "idle" /\ \E t \in CoreTexts : CoreBegin(1, t)
  \/ \E k \in OracleKinds : DocSentiment(1, k)
  \/ SentenceSentiment(1)
  \/ CoreReturn(1)

SpecCore == Init /\ [][NextCore]_vars

\* ------------------------------------------------------------------------
\* Properties
\* ------------------------------------------------------------------------
InUnit(x) == RLe(Zero, x) /\ RLe(x, One)

\* a score in hundredths lies in [0,100]
InPercent(v) == v >= 0 /\ v <= 10000

Scored(r) == pc[r] = "done" /\ status[r] \in {"200", "returned"}

HasFeatures(r) == pc[r] \in {"doc_sentiment", "sentence_sentiment"} \/ Scored(r)

\* C1: every score that score_paper returns for the features of a text,
\* language, coherence, reasoning and composite, lies in [0,100].
C1_ScoresInRange ==
  \A r \in Slots :
    Scored(r) =>
      /\ InPercent(scores[r].language)
      /\ InPercent(scores[r].coherence)
      /\ InPercent(scores[r].reasoning)
      /\ InPercent(scores[r].composite)

\* a text whose words average more than 5 characters, so that the min()
\* of the avg_word_len term is what keeps language at 100
C1_Witness ==
  \E r \in Slots :
    /\ Scored(r)
    /\ RLt(<<5, 1>>, features[r].avg_word_len)
    /\ scores[r].language = 10000

\* C2: the features ttr, lex_soph, coherence and reasoning_proxy that
\* compute_features produces lie in [0,1].
C2_RatiosInUnit ==
  \A r \in Slots :
    HasFeatures(r) =>
      /\ InUnit(features[r].ttr)
      /\ InUnit(features[r].lex_soph)
      /\ InUnit(features[r].coherence)
      /\ InUnit(features[r].reasoning_proxy)

\* sentence lengths so uneven that the variance term exceeds 1 and the
\* max() clamps coherence to 0, in a text that has words
C2_Witness ==
  \E r \in Slots :
    /\ HasFeatures(r)
    /\ features[r].word_count > 0
    /\ features[r].sentence_count > 1
    /\ features[r].coherence = Zero

Blank(t) == Len(strip(t)) = 0

\* C3 as stated: for empty or whitespace-only text the pipeline yields
\* word_count = 0, sentence_count = 0, every ratio field equal to 0 and
\* composite = 0.
C3_BlankAllZero ==
  \A r \in Slots :
    (Scored(r) /\ Blank(text[r])) =>
      /\ features[r].word_count = 0
      /\ features[r].sentence_count = 0
      /\ features[r].ttr = Zero
      /\ features[r].lex_soph = Zero
      /\ features[r].coherence = Zero
      /\ features[r].reasoning_proxy = Zero
      /\ scores[r].composite = 0

\* C3 amended: for empty or whitespace-only text the pipeline yields
\* word_count = 0, sentence_count = 0, ttr = lex_soph = coherence = 0,
\* reasoning_proxy = 0.5 and composite = 15.0 (language 0, coherence 0,
\* reasoning 50).
C3_BlankNeutral ==
  \A r \in Slots :
    (Scored(r) /\ Blank(text[r])) =>
      /\ features[r].word_count = 0
      /\ features[r].sentence_count = 0
      /\ features[r].avg_sentence_len = Zero
      /\ features[r].avg_word_len = Zero
      /\ features[r].ttr = Zero
      /\ features[r].lex_soph = Zero
      /\ features[r].coherence = Zero
      /\ features[r].reasoning_proxy = Half
      /\ scores[r] = [language |-> 0, coherence |-> 0, reasoning |-> 5000,
                      composite |-> 1500]

\* a whitespace-only text went through the whole pipeline
C3_Witness ==
  \E r \in Slots : Scored(r) /\ Blank(text[r]) /\ Len(text[r]) > 1

OracleFailed(r) == \E i \in 1..Len(calls[r]) : calls[r][i].raised

\* C4 as stated: when the oracle fails on the document or on a sentence,
\* the request ends in a distinct "sentiment unavailable" outcome: not
\* zero sentiment values in a normal response, not the undifferentiated
\* error of any unhandled exception, and without a second try.
C4_SentimentUnavailable ==
  \A r \in Slots :
    (entry[r] = "analyze" /\ OracleFailed(r)) =>
      /\ pc[r] = "done"
      /\ status[r] # "200"
      /\ calls[r][Len(calls[r])].raised
      /\ \A i \in 1..(Len(calls[r]) - 1) : ~calls[r][i].raised
      /\ detail[r] # ServerErrorDetail

\* C5: analyze() answers 400 to a text whose stripped length is below 20
\* before any segmentation, feature, score or oracle call; a direct call
\* of the core functions never fails for a short text (only when the
\* oracle raises); a text of stripped length 20 or more goes through the
\* pipeline.
C5_LengthGate ==
  \A r \in Slots :
    /\ (entry[r] = "analyze" /\ Len(strip(text[r])) < MinChars) =>
         /\ pc[r] = "done"
         /\ status[r] = "400"
         /\ calls[r] = <<>>
         /\ sentences[r] = <<>> /\ words[r] = <<>>
         /\ features[r] = Unset /\ scores[r] = Unset
         /\ contribs[r] = <<>>
    /\ (entry[r] = "analyze" /\ Len(strip(text[r])) >= MinChars) =>
         /\ status[r] # "400"
         /\ features[r] # Unset
         /\ sentences[r] # <<>>
         /\ (pc[r] = "done" /\ ~OracleFailed(r)) => status[r] = "200"
    /\ (entry[r] = "core" /\ pc[r] = "done") =>
         /\ status[r] = "raised" <=> OracleFailed(r)
         /\ status[r] = "returned" <=> ~OracleFailed(r)

\* rejected although the raw text has 20 characters or more: only the
\* stripped length counts
C5_Witness ==
  \E r \in Slots :
    /\ entry[r] = "analyze"
    /\ status[r] = "400"
    /\ Len(text[r]) >= MinChars
    /\ Len(strip(text[r])) = MinChars - 1

\* C6: a request calls the oracle once on the whole text and then once on
\* each sentence, in sentence order, and sentiment_analysis has one entry
\* per sentence, in order, with that sentence as text and the oracle's
\* values for it unchanged.
C6_OracleCalls ==
  \A r \in Slots :
    /\ Len(calls[r]) <= 1 + Len(sentences[r])
    /\ \A i \in 1..Len(calls[r]) :
         calls[r][i].span = IF i = 1 THEN text[r] ELSE sentences[r][i - 1]
    /\ status[r] = "200" =>
         /\ Len(calls[r]) = 1 + Len(sentences[r])
         /\ Len(sentiment_analysis[r]) = Len(sentences[r])
         /\ \A i \in 1..Len(sentences[r]) :
              sentiment_analysis[r][i] =
                [text |-> sentences[r][i],
                 polarity |-> calls[r][i + 1].polarity,
                 subjectivity |-> calls[r][i + 1].subjectivity]

\* a response for several sentences whose oracle values differ
C6_Witness ==
  \E r \in Slots :
    /\ status[r] = "200"
    /\ Len(sentences[r]) >= 2
    /\ sentiment_analysis[r][1].polarity # sentiment_analysis[r][2].polarity
    /\ sentiment_analysis[r][1].polarity # features[r].sentiment_polarity

\* the sentences of cs whose penalty is p, in the order of cs
WithPenalty(cs, p) ==
  LET Sel(c) == c[2] = p IN SelectSeq(cs, Sel)

\* C7: sentence_contributions returns the pairs in non-increasing order of
\* penalty, and sentences of equal penalty keep their input order.
C7_StableDescending ==
  \A r \in Slots :
    Scored(r) =>
      LET cs == contribs[r]
          input == list([i \in 1..Len(sentences[r]) |->
                           <<sentences[r][i], penalty(sentences[r][i], features[r])>>])
      IN  /\ Len(cs) = Len(input)
          /\ \A i \in 1..(Len(cs) - 1) : RLe(cs[i + 1][2], cs[i][2])
          /\ \A p \in {input[i][2] : i \in 1..Len(input)} :
               WithPenalty(cs, p) = WithPenalty(input, p)

\* a ranking that moved a later sentence ahead and holds two different
\* sentences of equal penalty
C7_Witness ==
  \E r \in Slots :
    /\ Scored(r)
    /\ Len(contribs[r]) >= 3
    /\ contribs[r][1][1] # sentences[r][1]
    /\ \E i \in 1..(Len(contribs[r]) - 1) :
         /\ contribs[r][i][2] = contribs[r][i + 1][2]
         /\ contribs[r][i][1] # contribs[r][i + 1][1]

\* C8: top_flagged_sentences is the sentences of the first
\* min(5, sentence_count) entries of the ranking, in rank order, and never
\* more than 5.
C8_TopFive ==
  \A r \in Slots :
    status[r] = "200" =>
      /\ Len(top_flagged[r]) <= TopN
      /\ Len(top_flagged[r]) =
           IF features[r].sentence_count < TopN THEN features[r].sentence_count ELSE TopN
      /\ \A i \in 1..Len(top_flagged[r]) : top_flagged[r][i] = contribs[r][i][1]
      /\ contribs[r] = sentence_contributions(sentences[r], features[r])

\* more than 5 sentences were ranked and 5 are flagged
C8_Witness ==
  \E r \in Slots :
    /\ status[r] = "200"
    /\ features[r].sentence_count > TopN
    /\ Len(top_flagged[r]) = TopN
    /\ top_flagged[r][1] # sentences[r][1]

\* the features a request on text t with oracle k gets when it runs alone
AloneFeatures(t, k) ==
  LET res == polarity_and_subjectivity(k, t)
  IN  text_features(sentence_split(t), tokenize_words(t))
        @@ [sentiment_polarity |-> res.polarity,
            sentiment_subjectivity |-> res.subjectivity]

\* C9: with a deterministic oracle, a request's FeatureVector and ScoreSet
\* are those it gets when run alone, whatever requests ran before it or
\* run beside it; two requests on the same text get the same ones.
C9_NoSharedState ==
  /\ \A r \in Slots :
       status[r] = "200" =>
         LET alone == AloneFeatures(text[r], oracle[r])
         IN  features[r] = alone /\ scores[r] = score_paper(alone)
  /\ \A r1, r2 \in Slots :
       (status[r1] = "200" /\ status[r2] = "200" /\ text[r1] = text[r2]
          /\ oracle[r1] = oracle[r2]) =>
         (features[r1] = features[r2] /\ scores[r1] = scores[r2])

\* a finished request beside one on another text with another oracle
\* that has made its document call
C9_Witness ==
  \E r1, r2 \in Slots :
    /\ status[r1] = "200"
    /\ pc[r2] = "sentence_sentiment"
    /\ text[r1] # text[r2]
    /\ oracle[r1].vals # oracle[r2].vals

NoModal(ws) == \A i \in 1..Len(ws) : ws[i] \notin ModalHedges

\* sentence j of ss with the causal marker "so" put in front
WithMarker(ss, j) == [ss EXCEPT ![j] = <<"s", "o", " ">> \o @]

\* the words of the text after that change: one more word, "so"
WithMarkerWord(ws) == Append(ws, <<"s", "o">>)

\* reasoning_proxy of TextTherefore exceeds that of TextNoTherefore
C10_Scenario ==
  \A r \in Slots :
    (HasFeatures(r) /\ text[r] = TextTherefore) =>
      RLt(reasoning_proxy(sentence_split(TextNoTherefore), tokenize_words(TextNoTherefore)),
          features[r].reasoning_proxy)

\* C10 as stated: the scenario, and in general, without modal hedges and
\* with the sentence count unchanged, giving a causal marker to a sentence
\* that had none strictly increases reasoning_proxy.
C10_CausalStrict ==
  /\ C10_Scenario
  /\ \A r \in Slots :
       (pc[r] = "doc_sentiment" /\ NoModal(words[r])) =>
         \A j \in 1..Len(sentences[r]) :
           ~has_causal(sentences[r][j]) =>
             RLt(features[r].reasoning_proxy,
                 reasoning_proxy(WithMarker(sentences[r], j), WithMarkerWord(words[r])))

\* C10 amended: the scenario, and in general, without modal hedges and
\* with the sentence count unchanged, giving a causal marker to a sentence
\* that had none strictly increases reasoning_proxy while it is below 1,
\* and leaves it at 1 once it is 1 (the upper clamp).
C10_CausalUpToClamp ==
  /\ C10_Scenario
  /\ \A r \in Slots :
       (pc[r] = "doc_sentiment" /\ NoModal(words[r])) =>
         \A j \in 1..Len(sentences[r]) :
           ~has_causal(sentences[r][j]) =>
             LET after == reasoning_proxy(WithMarker(sentences[r], j),
                                          WithMarkerWord(words[r]))
             IN  IF RLt(features[r].reasoning_proxy, One)
                 THEN RLt(features[r].reasoning_proxy, after)
                 ELSE after = One

\* the scenario text with its marker found, reasoning_proxy above neutral
C10_Witness ==
  \E r \in Slots :
    /\ pc[r] = "doc_sentiment"
    /\ text[r] = TextTherefore
    /\ RLt(Half, features[r].reasoning_proxy)

\* the type-token ratio of one sentence's own tokens (line 106)
LocalTtr(s) == type_token_ratio(tokenize_words(s))

C11_Ranked(r) ==
  /\ Len(sentences[r]) = 2
  /\ Len(contribs[r]) = 2
  /\ contribs[r][1][1] = sentences[r][2]
  /\ contribs[r][2][1] = sentences[r][1]
  /\ RLt(contribs[r][2][2], contribs[r][1][2])
  /\ ~has_causal(sentences[r][2])
  /\ RLt(LocalTtr(sentences[r][2]), LocalTtr(sentences[r][1]))

\* C11 as stated: for the two-sentence ranking text the second sentence
\* ranks first, its penalty being higher on account of both the
\* long-sentence term and its lower local type-token ratio.
C11_LongAndRepetitive ==
  \A r \in Slots :
    (Scored(r) /\ text[r] = TextRamble) =>
      /\ C11_Ranked(r)
      /\ is_long(tokenize_words(sentences[r][2]), features[r]) = One

\* C11 amended: for the two-sentence ranking text the second sentence
\* ranks first, its penalty being higher on account of its lower local
\* type-token ratio alone: the long-sentence term is applied to neither
\* sentence (41 words do not exceed twice the average of 23.5), and the
\* two penalties differ by exactly the difference of the two ratios.
C11_RepetitiveOnly ==
  \A r \in Slots :
    (Scored(r) /\ text[r] = TextRamble) =>
      /\ C11_Ranked(r)
      /\ is_long(tokenize_words(sentences[r][1]), features[r]) = Zero
      /\ is_long(tokenize_words(sentences[r][2]), features[r]) = Zero
      /\ RSub(contribs[r][1][2], contribs[r][2][2])
           = RSub(LocalTtr(sentences[r][1]), LocalTtr(sentences[r][2]))

\* the ranking text was ranked; its second sentence has more words than
\* the floor of the long test
C11_Witness ==
  \E r \in Slots :
    /\ Scored(r)
    /\ text[r] = TextRamble
    /\ Len(tokenize_words(sentences[r][2])) > LongFloor
    /\ contribs[r][1][1] = sentences[r][2]

\* where the tokens of tokenize_words lie in s: <<first, last>> positions,
\* found as FindTokens finds them
RECURSIVE TokenSpans(_, _, _)
TokenSpans(s, i, acc) ==
  LET b == FirstIn(i, Len(s), LAMBDA k : s[k] \in TokenChars /\ Boundary(s, k))
      e == FirstIn(b, Len(s), LAMBDA k : s[k] \notin TokenChars) - 1
      j == LastIn(b, e, LAMBDA k : Boundary(s, k + 1))
  IN  IF b > Len(s) THEN acc
      ELSE IF j < b THEN TokenSpans(s, b + 1, acc)
      ELSE TokenSpans(s, j + 1, Append(acc, <<b, j>>))

\* the words put in place of a shorter word
LongerWords ==
  { <<"c","a","t">>, <<"m","a","y","b","e">>,
    <<"T","h","e","r","e","f","o","r","e">> }

\* text t with the token at span sp replaced by the word w
ReplaceToken(t, sp, w) == SubSeq(t, 1, sp[1] - 1) \o w \o SubSeq(t, sp[2] + 1, Len(t))

\* the features of the text t2 that is text[r] with its i-th word
\* replaced by w, or Unset when t2 is not the text of the claim: w is
\* longer than the word, the other words and the number of words of each
\* sentence are the same
LongerVariant(r, sp, i, w) ==
  IF Len(w) <= Len(words[r][i]) THEN Unset
  ELSE LET t2 == ReplaceToken(text[r], sp, w)
           ws2 == tokenize_words(t2)
           ss2 == sentence_split(t2)
       IN  IF /\ ws2 = [words[r] EXCEPT ![i] = lower(w)]
              /\ SentenceLengths(ss2) = SentenceLengths(sentences[r])
           THEN text_features(ss2, ws2)
           ELSE Unset

\* the features of every text that is text[r] with one word replaced by
\* a longer one
LongerVariants(r) ==
  LET spans == TokenSpans(lower(text[r]), 1, <<>>)
  IN  { LongerVariant(r, spans[x[1]], x[1], x[2]) :
          x \in (1..Len(spans)) \X LongerWords } \ {Unset}

\* texts of the word-replacement checks: at most MaxLexPieces pieces
MaxLexPieces == 3

LexTexts == Compose(WordPieces, MaxLexPieces)

\* One direct call of the core functions on any text of LexTexts
NextLex ==
  \/ pc[1] = "idle" /\ \E t \in LexTexts : CoreBegin(1, t)
  \/ \E k \in OracleKinds : DocSentiment(1, k)
  \/ SentenceSentiment(1)
  \/ CoreReturn(1)

SpecLex == Init /\ [][NextLex]_vars

\* C12 as stated: when words of a text are replaced by longer words, the
\* number of words and the sentence boundaries staying the same,
\* avg_word_len strictly increases and the language score does not
\* decrease.
C12_LanguageMonotone ==
  \A r \in Slots :
    pc[r] = "doc_sentiment" =>
      \A f2 \in LongerVariants(r) :
        /\ RLt(features[r].avg_word_len, f2.avg_word_len)
        /\ score_paper(features[r]).language <= score_paper(f2).language

\* C12 amended: when words of a text are replaced by longer words, the
\* number of words and the sentence boundaries staying the same,
\* avg_word_len strictly increases and lex_soph does not decrease; the
\* language score does not decrease provided the type-token ratio of the
\* second text is not lower than that of the first.
C12_LanguageMonotoneAtEqualTtr ==
  \A r \in Slots :
    pc[r] = "doc_sentiment" =>
      \A f2 \in LongerVariants(r) :
        /\ RLt(features[r].avg_word_len, f2.avg_word_len)
        /\ RLe(features[r].lex_soph, f2.lex_soph)
        /\ RLe(features[r].ttr, f2.ttr) =>
             score_paper(features[r]).language <= score_paper(f2).language

\* a text of several words one of which can be replaced by a longer word
\* at no loss of type-token ratio, the language score rising
C12_Witness ==
  \E r \in Slots :
    /\ pc[r] = "doc_sentiment"
    /\ features[r].word_count >= 3
    /\ \E f2 \in LongerVariants(r) :
         /\ RLe(features[r].ttr, f2.ttr)
         /\ score_paper(features[r]).language < score_paper(f2).language

\* C13: every sentence returned by sentence_split is non-empty and has no
\* leading or trailing whitespace; a candidate that is empty after the
\* backslash-n replacement and the trimming is dropped.
C13_SentencesNonEmpty ==
  \A r \in Slots :
    pc[r] = "doc_sentiment" =>
      \A i \in 1..Len(sentences[r]) :
        /\ Len(sentences[r][i]) > 0
        /\ sentences[r][i][1] \notin Whitespace
        /\ sentences[r][i][Len(sentences[r][i])] \notin Whitespace

\* C14: no sentence returned by sentence_split contains a newline
\* character, and every sentence but the last ends with '.', '!' or '?'.
C14_NoNewlineTerminated ==
  \A r \in Slots :
    pc[r] = "doc_sentiment" =>
      \A i \in 1..Len(sentences[r]) :
        /\ \A k \in 1..Len(sentences[r][i]) : sentences[r][i][k] # "\n"
        /\ i < Len(sentences[r]) =>
             /\ Len(sentences[r][i]) > 0
             /\ sentences[r][i][Len(sentences[r][i])] \in SentenceEnd

\* the maximal runs of word characters and apostrophes of s, in order
RECURSIVE RunsFrom(_, _, _)
RunsFrom(s, i, acc) ==
  LET b == FirstIn(i, Len(s), LAMBDA k : s[k] \in TokenChars)
      e == FirstIn(b, Len(s), LAMBDA k : s[k] \notin TokenChars) - 1
  IN  IF b > Len(s) THEN acc
      ELSE RunsFrom(s, e + 1, Append(acc, SubSeq(s, b, e)))

HasWordChar(run) == \E k \in 1..Len(run) : run[k] \in WordChars

\* the runs that contain a word character
WordRuns(s) == SelectSeq(RunsFrom(s, 1, <<>>), HasWordChar)

\* a run from its first to its last word character
TrimApostrophes(run) ==
  SubSeq(run, FirstIn(1, Len(run), LAMBDA k : run[k] \in WordChars),
              LastIn(1, Len(run), LAMBDA k : run[k] \in WordChars))

\* C15 as stated: tokenize_words returns, in document order, exactly the
\* maximal runs of word characters and apostrophes of the lower-cased
\* text, apostrophes at the start or the end of a run included, and no
\* token for a run without a word character.
C15_MaximalRuns ==
  \A r \in Slots :
    pc[r] = "doc_sentiment" => words[r] = WordRuns(lower(text[r]))

\* C15 amended: tokenize_words returns, in document order, the maximal
\* runs of word characters and apostrophes of the lower-cased text that
\* contain a word character, each without the apostrophes before its
\* first and after its last word character (apostrophes inside are
\* kept), and no token for a run without a word character.
C15_TrimmedRuns ==
  \A r \in Slots :
    pc[r] = "doc_sentiment" =>
      LET runs == WordRuns(lower(text[r]))
      IN  words[r] = list([i \in 1..Len(runs) |-> TrimApostrophes(runs[i])])

\* a run with an apostrophe inside, which the token keeps, and one at an
\* end, which it loses
C15_Witness ==
  \E r \in Slots :
    /\ pc[r] = "doc_sentiment"
    /\ \E i \in 1..Len(words[r]) : \E k \in 1..Len(words[r][i]) : words[r][i][k] = "'"
    /\ words[r] # WordRuns(lower(text[r]))

\* a causal marker stands in s as a whole word, in any case: no word
\* character right before it or right after it
ContainsMarker(s) ==
  LET t == lower(s)
  IN  \E m \in CausalMarkers : \E i \in 1..(Len(t) - Len(m) + 1) :
        /\ SubSeq(t, i, i + Len(m) - 1) = m
        /\ ~IsWordAt(t, i - 1)
        /\ ~IsWordAt(t, i + Len(m))

NoMarkerNoHedge(r) ==
  /\ \A i \in 1..Len(sentences[r]) : ~ContainsMarker(sentences[r][i])
  /\ NoModal(words[r])

\* C16: for every text in which no sentence contains a causal marker and
\* no word is a modal hedge, the text without sentences and words
\* included, reasoning_proxy is exactly 0.5.
C16_NeutralHalf ==
  \A r \in Slots :
    (pc[r] = "doc_sentiment" /\ NoMarkerNoHedge(r)) =>
      features[r].reasoning_proxy = Half

\* a text of several sentences and words, none a marker or a hedge
C16_Witness ==
  \E r \in Slots :
    /\ pc[r] = "doc_sentiment"
    /\ NoMarkerNoHedge(r)
    /\ features[r].sentence_count >= 2
    /\ features[r].word_count >= 3
    /\ features[r].reasoning_proxy = Half

\* two finished /analyze requests on the same text that passed the
\* length gate
SameTextDone(r1, r2) ==
  /\ r1 # r2
  /\ entry[r1] = "analyze" /\ entry[r2] = "analyze"
  /\ pc[r1] = "done" /\ pc[r2] = "done"
  /\ text[r1] = text[r2]
  /\ status[r1] # "400"

\* C17 as stated: two runs of analyze on the same text, with oracles that
\* return different values or with one oracle that fails, produce the
\* same scores and the same top_flagged_sentences.
C17_OracleIndependent ==
  \A r1, r2 \in Slots :
    SameTextDone(r1, r2) =>
      /\ scores[r1] # Unset
      /\ scores[r1] = scores[r2]
      /\ top_flagged[r1] = top_flagged[r2]

\* C17 amended: two runs of analyze on the same text with oracles that
\* return different values produce the same scores and the same
\* top_flagged_sentences; a run whose oracle fails ends in an error and
\* produces no scores and no flagged sentences.
C17_OracleIndependentUnlessFailed ==
  /\ \A r1, r2 \in Slots :
       (SameTextDone(r1, r2) /\ ~OracleFailed(r1) /\ ~OracleFailed(r2)) =>
         /\ status[r1] = "200" /\ status[r2] = "200"
         /\ scores[r1] # Unset
         /\ scores[r1] = scores[r2]
         /\ contribs[r1] = contribs[r2]
         /\ top_flagged[r1] = top_flagged[r2]
  /\ \A r \in Slots :
       (entry[r] = "analyze" /\ pc[r] = "done" /\ OracleFailed(r)) =>
         /\ status[r] = "500"
         /\ scores[r] = Unset
         /\ contribs[r] = <<>>
         /\ top_flagged[r] = <<>>

\* two answered requests on the same text whose oracles gave different
\* values for it
C17_Witness ==
  \E r1, r2 \in Slots :
    /\ SameTextDone(r1, r2)
    /\ status[r1] = "200" /\ status[r2] = "200"
    /\ Len(top_flagged[r1]) >= 2
    /\ features[r1].sentiment_polarity # features[r2].sentiment_polarity

\* the tokens of the sentences, sentence after sentence
RECURSIVE SentenceTokens(_, _)
SentenceTokens(ss, i) ==
  IF i > Len(ss) THEN <<>>
  ELSE tokenize_words(ss[i]) \o SentenceTokens(ss, i + 1)

WordsAreSentenceWords(r) ==
  /\ features[r].word_count = Len(SentenceTokens(sentences[r], 1))
  /\ RMul(features[r].avg_sentence_len, <<features[r].sentence_count, 1>>)
       = <<features[r].word_count, 1>>

\* C18: for every text, word_count equals the sum over the
\* sentences of each sentence's token count, so that avg_sentence_len
\* times sentence_count is word_count.
C18_WordCountIsSum ==
  \A r \in Slots : pc[r] = "doc_sentiment" => WordsAreSentenceWords(r)

\* how many times x occurs in the sequence q
Occurrences(q, x) == Cardinality({i \in 1..Len(q) : q[i] = x})

\* one pair per input sentence, a permutation of the input; penalties
\* non-negative, and 0 for a sentence without word tokens
PermutationNonNegative(r) ==
  LET ranked == list([i \in 1..Len(contribs[r]) |-> contribs[r][i][1]])
  IN  /\ Len(contribs[r]) = Len(sentences[r])
      /\ \A i \in 1..Len(sentences[r]) :
           Occurrences(ranked, sentences[r][i])
             = Occurrences(sentences[r], sentences[r][i])
      /\ \A i \in 1..Len(contribs[r]) :
           /\ Len(contribs[r][i]) = 2
           /\ RLe(Zero, contribs[r][i][2])
           /\ Len(tokenize_words(contribs[r][i][1])) = 0 => contribs[r][i][2] = Zero

\* the step in which sentence_contributions runs leaves the sentence
\* list and the features as they were
ContributionsFrame ==
  \A r \in Slots :
    (~Scored(r) /\ Scored(r)') =>
      /\ sentences'[r] = sentences[r]
      /\ features'[r] = features[r]

\* C19: sentence_contributions returns one (sentence, penalty) pair per
\* input sentence, a permutation of the input with none dropped, added or
\* duplicated; every penalty is non-negative, a sentence without word
\* tokens has penalty 0, and the sentence list and the features are left
\* as they were.
C19_PermutationNonNegative ==
  /\ [](\A r \in Slots : Scored(r) => PermutationNonNegative(r))
  /\ [][ContributionsFrame]_vars

\* a ranking of a sentence list that holds the same sentence twice and a
\* sentence without words, and that is not in input order
C19_Witness ==
  \E r \in Slots :
    /\ Scored(r)
    /\ \E i, j \in 1..Len(sentences[r]) : i # j /\ sentences[r][i] = sentences[r][j]
    /\ \E i \in 1..Len(contribs[r]) :
         Len(tokenize_words(contribs[r][i][1])) = 0 /\ contribs[r][i][2] = Zero
    /\ contribs[r][1][1] # sentences[r][1]

\* what is left of a ranked pair's penalty without its (1 - ttr) and
\* 0.5 * (1 - causal) terms: the long-sentence term, 1.2 or 0
LongTermOf(c) ==
  RSub(RSub(c[2], RSub(One, LocalTtr(c[1]))),
       IF ContainsMarker(c[1]) THEN Zero ELSE Half)

\* C20: the long-sentence term 1.2 is applied to a sentence only when its
\* word count is strictly greater than both 40 and twice the document's
\* avg_sentence_len; so it is never applied in a document of a single
\* sentence, and never to a sentence of 40 words or fewer.
C20_LongAboveBoth ==
  \A r \in Slots :
    Scored(r) =>
      \A i \in 1..Len(contribs[r]) :
        LET n == Len(tokenize_words(contribs[r][i][1]))
            avg == features[r].avg_sentence_len
        IN  n > 0 =>
              /\ LongTermOf(contribs[r][i]) \in {Zero, <<6, 5>>}
              /\ LongTermOf(contribs[r][i]) = <<6, 5>> <=>
                   (n > LongFloor /\ n * avg[2] > 2 * avg[1])
              /\ features[r].sentence_count = 1 => LongTermOf(contribs[r][i]) = Zero
              /\ n <= LongFloor => LongTermOf(contribs[r][i]) = Zero

\* a sentence of more than 40 words, more than twice the average of its
\* document, carries the term
C20_Witness ==
  \E r \in Slots :
    /\ Scored(r)
    /\ features[r].sentence_count > 1
    /\ \E i \in 1..Len(contribs[r]) :
         /\ Len(tokenize_words(contribs[r][i][1])) = LongFloor + 1
         /\ LongTermOf(contribs[r][i]) = <<6, 5>>

\* C21: when the backend answers 200, the display loop of the page has a
\* label and an explanation for every key of the diagnostics mapping, the
\* two sentiment keys included, so rendering draws an expander for each
\* key and reaches the Visualizations tab, not the 'Failed to call API'
\* branch.
C21_RenderCompletes ==
  \A r \in Slots :
    (status[r] = "200" /\ ui[r] # NotRendered) =>
      /\ ui[r].outcome = "visualizations"
      /\ ui[r].expanders = diagnostics_items(features[r])
      /\ \A i \in 1..Len(ui[r].expanders) :
           ui[r].expanders[i] \in metric_names \cap metric_explanations

====
